---- MODULE Spec2Model ----
(***************************************************************************)
(* Model of cesmii_validator/validator.py: the OPC UA primitive type       *)
(* predicates, the TimeZoneDataType check, nested-profile resolution and   *)
(* ProfileValidator.validate.                                              *)
(*                                                                         *)
(* Representation of Python data                                           *)
(*   str    a sequence of one-character strings; + is \o, "x in y" is      *)
(*          IsSubstring.  Keys of dicts and OPC UA type identifiers are    *)
(*          only ever compared or looked up, so they are TLA+ strings; a   *)
(*          field name is one character long (or empty) and StrOf gives    *)
(*          its str.                                                       *)
(*   int    arbitrary precision: a sign and a magnitude written as a       *)
(*          sequence of base-10000 limbs, most significant first, so that  *)
(*          9223372036854775807 is <<922, 3372, 368, 5477, 5807>>.         *)
(*   value  a record  t (type(value).__name__), neg/mag (int, bool, float),*)
(*          s (str), items (list), fields (dict: key -> value).            *)
(***************************************************************************)
EXTENDS Integers, Sequences, FiniteSets, TLC

VARIABLES
    profile,              \* ProfileValidator.profile
    referenced_profiles,  \* ProfileValidator.referenced_profiles, in dict order
    payload,              \* argument of validate
    path_prefix,          \* argument of validate
    result,               \* the ValidationResult validate returned
    depth,                \* number of nested validators above this call
    value,                \* argument of _validate_opc_type / _validate_timezone
    opc_type,             \* argument of _validate_opc_type
    path,                 \* argument of _validate_opc_type / _validate_timezone
    errors,               \* the list _validate_opc_type / _validate_timezone returned
    pc                    \* "start", or the method that has returned

vars == <<profile, referenced_profiles, payload, path_prefix, result, depth,
          value, opc_type, path, errors, pc>>

(***************************************************************************)
(* Python values                                                           *)
(***************************************************************************)
\* None where a str is optional (expected, actual, opc_type)
None == "None"

NoFields == [k \in {} |-> 0]

PyNone == [t |-> "NoneType", neg |-> FALSE, mag |-> <<0>>, s |-> <<>>, items |-> <<>>, fields |-> NoFields]

PyBool(b) == [t |-> "bool", neg |-> FALSE, mag |-> IF b THEN <<1>> ELSE <<0>>, s |-> <<>>, items |-> <<>>, fields |-> NoFields]

PyInt(neg, mag) == [t |-> "int", neg |-> neg, mag |-> mag, s |-> <<>>, items |-> <<>>, fields |-> NoFields]

\* a float is never compared or computed with; mag holds its decimal digits
PyFloat(neg, mag) == [t |-> "float", neg |-> neg, mag |-> mag, s |-> <<>>, items |-> <<>>, fields |-> NoFields]

PyStr(s) == [t |-> "str", neg |-> FALSE, mag |-> <<0>>, s |-> s, items |-> <<>>, fields |-> NoFields]

PyList(items) == [t |-> "list", neg |-> FALSE, mag |-> <<0>>, s |-> <<>>, items |-> items, fields |-> NoFields]

PyDict(fields) == [t |-> "dict", neg |-> FALSE, mag |-> <<0>>, s |-> <<>>, items |-> <<>>, fields |-> fields]

\* isinstance(value, int): bool is a subclass of int in Python
IsInstanceInt(v) == v.t \in {"int", "bool"}

\* a <= b on magnitudes
MagLE(a, b) ==
    \/ Len(a) < Len(b)
    \/ /\ Len(a) = Len(b)
       /\ \/ a = b
          \/ \E i \in 1..Len(a) : a[i] < b[i] /\ \A j \in 1..(i - 1) : a[j] = b[j]

\* a <= b on Python ints (records with neg and mag; zero is never negative)
IntLE(a, b) ==
    IF a.neg /\ ~b.neg THEN TRUE
    ELSE IF ~a.neg /\ b.neg THEN FALSE
    ELSE IF a.neg THEN MagLE(b.mag, a.mag)
    ELSE MagLE(a.mag, b.mag)

\* lo <= value <= hi
InRange(lo, v, hi) == IntLE(lo, v) /\ IntLE(v, hi)

Digits == {"0", "1", "2", "3", "4", "5", "6", "7", "8", "9"}

HexDigits == Digits \cup {"a", "b", "c", "d", "e", "f", "A", "B", "C", "D", "E", "F"}

\* one pattern position against one character: d is \d, h is [0-9a-fA-F]
CharMatches(p, c) ==
    IF p = "d" THEN c \in Digits
    ELSE IF p = "h" THEN c \in HexDigits
    ELSE c = p

\* re.match of a fixed-width pattern: the pattern matches a prefix of s
MatchPrefix(pat, s) ==
    /\ Len(s) >= Len(pat)
    /\ \A i \in 1..Len(pat) : CharMatches(pat[i], s[i])

\* "x in y" on strings
IsSubstring(x, y) ==
    \E i \in 0..(Len(y) - Len(x)) : SubSeq(y, i + 1, i + Len(x)) = x

IsPrefix(x, y) == Len(x) <= Len(y) /\ SubSeq(y, 1, Len(x)) = x

StrOf(name) == IF name = "" THEN <<>> ELSE <<name>>

(***************************************************************************)
(* OPC UA data type validators                                             *)
(***************************************************************************)
_is_valid_boolean(v) == v.t = "bool"

\* _is_valid_int16 with the upper bound left out of the range
_is_valid_int16_open(v) ==
    IsInstanceInt(v) /\ InRange(PyInt(TRUE, <<3, 2768>>), v, PyInt(FALSE, <<3, 2766>>))

_is_valid_int16(v) ==
    IsInstanceInt(v) /\ InRange(PyInt(TRUE, <<3, 2768>>), v, PyInt(FALSE, <<3, 2767>>))

_is_valid_int32(v) ==
    IsInstanceInt(v) /\ InRange(PyInt(TRUE, <<21, 4748, 3648>>), v, PyInt(FALSE, <<21, 4748, 3647>>))

_is_valid_int64(v) ==
    IsInstanceInt(v) /\ InRange(PyInt(TRUE, <<922, 3372, 368, 5477, 5808>>), v,
                                PyInt(FALSE, <<922, 3372, 368, 5477, 5807>>))

_is_valid_uint16(v) ==
    IsInstanceInt(v) /\ InRange(PyInt(FALSE, <<0>>), v, PyInt(FALSE, <<6, 5535>>))

_is_valid_uint32(v) ==
    IsInstanceInt(v) /\ InRange(PyInt(FALSE, <<0>>), v, PyInt(FALSE, <<42, 9496, 7295>>))

_is_valid_uint64(v) ==
    IsInstanceInt(v) /\ InRange(PyInt(FALSE, <<0>>), v, PyInt(FALSE, <<1844, 6744, 737, 955, 1615>>))

_is_valid_float(v) == v.t \in {"int", "bool", "float"}

_is_valid_double(v) == v.t \in {"int", "bool", "float"}

_is_valid_string(v) == v.t = "str"

DateTimePattern == <<"d", "d", "d", "d", "-", "d", "d", "-", "d", "d", "T", "d", "d", ":", "d", "d", ":", "d", "d">>

GuidPattern == <<"h", "h", "h", "h", "h", "h", "h", "h", "-", "h", "h", "h", "h", "-", "h", "h", "h", "h", "-", "h", "h", "h", "h", "-", "h", "h", "h", "h", "h", "h", "h", "h", "h", "h", "h", "h">>

\* "$" of a Python regex: the end of the string, or just before a final newline
AtEnd(s, n) == n = Len(s) \/ (n = Len(s) - 1 /\ s[Len(s)] = "\n")

_is_valid_datetime(v) == v.t = "str" /\ MatchPrefix(DateTimePattern, v.s)

\* ^<datetime>.*Z$ : "." does not match a newline
_is_valid_utctime(v) ==
    /\ v.t = "str"
    /\ MatchPrefix(DateTimePattern, v.s)
    /\ \E p \in (Len(DateTimePattern) + 1)..Len(v.s) :
          /\ v.s[p] = "Z"
          /\ \A j \in (Len(DateTimePattern) + 1)..(p - 1) : v.s[j] # "\n"
          /\ AtEnd(v.s, p)

_is_valid_guid(v) ==
    /\ v.t = "str"
    /\ MatchPrefix(GuidPattern, v.s)
    /\ AtEnd(v.s, Len(GuidPattern))

\* the keys of OPC_TYPE_VALIDATORS
OPC_TYPES ==
    {"opc:Boolean", "opc:Int16", "opc:Int32", "opc:Int64", "opc:UInt16", "opc:UInt32",
     "opc:UInt64", "opc:Float", "opc:Double", "opc:String", "opc:DateTime", "opc:UtcTime",
     "opc:Guid"}

\* OPC_TYPE_VALIDATORS[opc_type][0](value)
OPC_TYPE_VALIDATORS(ot, v) ==
    CASE ot = "opc:Boolean" -> _is_valid_boolean(v)
      [] ot = "opc:Int16" -> _is_valid_int16(v)
      [] ot = "opc:Int32" -> _is_valid_int32(v)
      [] ot = "opc:Int64" -> _is_valid_int64(v)
      [] ot = "opc:UInt16" -> _is_valid_uint16(v)
      [] ot = "opc:UInt32" -> _is_valid_uint32(v)
      [] ot = "opc:UInt64" -> _is_valid_uint64(v)
      [] ot = "opc:Float" -> _is_valid_float(v)
      [] ot = "opc:Double" -> _is_valid_double(v)
      [] ot = "opc:String" -> _is_valid_string(v)
      [] ot = "opc:DateTime" -> _is_valid_datetime(v)
      [] ot = "opc:UtcTime" -> _is_valid_utctime(v)
      [] ot = "opc:Guid" -> _is_valid_guid(v)

\* OPC_TYPE_VALIDATORS[opc_type][1]
TypeDesc(ot) ==
    CASE ot = "opc:Boolean" -> "boolean"
      [] ot = "opc:Int16" -> "integer (-32768 to 32767)"
      [] ot = "opc:Int32" -> "integer (-2147483648 to 2147483647)"
      [] ot = "opc:Int64" -> "integer (64-bit)"
      [] ot = "opc:UInt16" -> "unsigned integer (0 to 65535)"
      [] ot = "opc:UInt32" -> "unsigned integer (0 to 4294967295)"
      [] ot = "opc:UInt64" -> "unsigned integer (64-bit)"
      [] ot = "opc:Float" -> "float"
      [] ot = "opc:Double" -> "double"
      [] ot = "opc:String" -> "string"
      [] ot = "opc:DateTime" -> "ISO 8601 datetime"
      [] ot = "opc:UtcTime" -> "ISO 8601 UTC time (ending with Z)"
      [] ot = "opc:Guid" -> "GUID/UUID"

(***************************************************************************)
(* ValidationError, ValidationResult                                       *)
(* A message is a sequence of pieces whose concatenation is the text.      *)
(***************************************************************************)
ValidationError(p, message, expected, actual) ==
    [path |-> p, message |-> message, expected |-> expected, actual |-> actual]

ValidationResult(valid, errs, warnings) ==
    [valid |-> valid, errors |-> errs, warnings |-> warnings]

(***************************************************************************)
(* ProfileValidator._validate_timezone                                     *)
(***************************************************************************)
TimezoneOffsetErrors(v, p) ==
    IF "offset" \notin DOMAIN v.fields
    THEN <<ValidationError(p \o <<".", "o", "f", "f", "s", "e", "t">>, <<"Missing required field">>, None, None)>>
    ELSE IF ~_is_valid_int16(v.fields["offset"])
    THEN <<ValidationError(p \o <<".", "o", "f", "f", "s", "e", "t">>, <<"Invalid type">>,
                           "integer (-32768 to 32767)", v.fields["offset"].t)>>
    ELSE <<>>

\* ".daylightSavingInOffset"
DaylightPath ==
    <<".", "d", "a", "y", "l", "i", "g", "h", "t", "S", "a", "v", "i", "n", "g",
      "I", "n", "O", "f", "f", "s", "e", "t">>

TimezoneDaylightErrors(v, p) ==
    IF "daylightSavingInOffset" \notin DOMAIN v.fields
    THEN <<ValidationError(p \o DaylightPath, <<"Missing required field">>,
                           None, None)>>
    ELSE IF ~_is_valid_boolean(v.fields["daylightSavingInOffset"])
    THEN <<ValidationError(p \o DaylightPath, <<"Invalid type">>,
                           "boolean", v.fields["daylightSavingInOffset"].t)>>
    ELSE <<>>

\* _validate_timezone stopping at the first sub-field in error
_validate_timezone_short(v, p) ==
    IF v.t # "dict"
    THEN <<ValidationError(p, <<"TimeZoneDataType must be an object">>,
                           "object with offset and daylightSavingInOffset", v.t)>>
    ELSE IF TimezoneOffsetErrors(v, p) # <<>> THEN TimezoneOffsetErrors(v, p)
    ELSE TimezoneDaylightErrors(v, p)

\* _validate_timezone going on to the sub-fields of a value that is not an object
_validate_timezone_no_stop(v, p) ==
    (IF v.t # "dict"
     THEN <<ValidationError(p, <<"TimeZoneDataType must be an object">>,
                            "object with offset and daylightSavingInOffset", v.t)>>
     ELSE <<>>)
    \o TimezoneOffsetErrors(v, p) \o TimezoneDaylightErrors(v, p)

_validate_timezone(v, p) ==
    IF v.t # "dict"
    THEN <<ValidationError(p, <<"TimeZoneDataType must be an object">>,
                           "object with offset and daylightSavingInOffset", v.t)>>
    ELSE TimezoneOffsetErrors(v, p) \o TimezoneDaylightErrors(v, p)

(***************************************************************************)
(* ProfileValidator._validate_opc_type                                     *)
(***************************************************************************)
\* _validate_opc_type rejecting the identifiers it does not know
_validate_opc_type_strict(v, ot, p) ==
    IF ot \in OPC_TYPES
    THEN IF ~OPC_TYPE_VALIDATORS(ot, v)
         THEN <<ValidationError(p, <<"Invalid type">>, TypeDesc(ot), v.t)>>
         ELSE <<>>
    ELSE IF ot = "opc:TimeZoneDataType"
    THEN _validate_timezone(v, p)
    ELSE <<ValidationError(p, <<"Unknown type">>, ot, v.t)>>

_validate_opc_type(v, ot, p) ==
    IF ot \in OPC_TYPES
    THEN IF ~OPC_TYPE_VALIDATORS(ot, v)
         THEN <<ValidationError(p, <<"Invalid type">>, TypeDesc(ot), v.t)>>
         ELSE <<>>
    ELSE IF ot = "opc:TimeZoneDataType"
    THEN _validate_timezone(v, p)
    ELSE <<>>

(***************************************************************************)
(* Profiles                                                                *)
(* A profile document is a record: isDataType ("cesmii:isDataType"),       *)
(* fields ("cesmii:fields") and attributes ("cesmii:attributes"), each a   *)
(* list of field definitions, id ("@id"), context ("@context": field name  *)
(* -> entry).  A field definition holds fieldName, browseName (None when   *)
(* the key is missing), dataTypeIsDict (whether "cesmii:dataType" is an    *)
(* object), typeId (its "@id", or None), profileReference (its             *)
(* "cesmii:profileReference", or NoRef) and isArray ("cesmii:isArray").    *)
(***************************************************************************)
\* None where a profile reference (a str) is missing
NoRef == <<"None">>

\* truth value of an optional str held as a TLA+ string
TruthyId(x) == x # None /\ x # ""

\* truth value of an optional str held as a sequence
TruthyStr(x) == x # NoRef /\ x # <<>>

\* truth value of a Python value
Truthy(v) ==
    CASE v.t = "NoneType" -> FALSE
      [] v.t \in {"bool", "int", "float"} -> v.mag # <<0>>
      [] v.t = "str" -> v.s # <<>>
      [] v.t = "list" -> v.items # <<>>
      [] v.t = "dict" -> DOMAIN v.fields # {}

\* f"{value}" for the values a "$namespace" key holds in this model
PyFormat(v) ==
    CASE v.t = "str" -> v.s
      [] v.t = "NoneType" -> <<"N", "o", "n", "e">>
      [] v.t = "bool" -> IF v.mag = <<1>> THEN <<"T", "r", "u", "e">> ELSE <<"F", "a", "l", "s", "e">>

\* {key(f): f for f in defs}: a repeated key keeps its first position and
\* takes the last value
RECURSIVE DictOfDefs(_, _)
DictOfDefs(defs, useFieldName) ==
    IF defs = <<>> THEN <<>>
    ELSE LET d == DictOfDefs(SubSeq(defs, 1, Len(defs) - 1), useFieldName)
             f == defs[Len(defs)]
             k == IF useFieldName THEN f.fieldName ELSE f.browseName
             at == {i \in 1..Len(d) : d[i].name = k}
         IN  IF at # {}
             THEN [i \in 1..Len(d) |-> IF i \in at THEN [name |-> k, def |-> f] ELSE d[i]]
             ELSE Append(d, [name |-> k, def |-> f])

\* ProfileValidator._parse_profile: self.fields in iteration order
_parse_profile(prof) ==
    IF prof.isDataType
    THEN DictOfDefs(prof.fields, TRUE)
    ELSE DictOfDefs(prof.attributes, FALSE)

\* ProfileValidator.__init__
ProfileValidator(prof, refs) ==
    [profile |-> prof,
     referenced_profiles |-> refs,
     is_data_type |-> prof.isDataType,
     fields |-> _parse_profile(prof),
     namespace |-> prof.id,
     context |-> prof.context]

\* ProfileValidator._get_type_from_context
_get_type_from_context(self, field_name) ==
    IF field_name \in DOMAIN self.context /\ self.context[field_name].isDict
    THEN self.context[field_name].type
    ELSE None

\* validate, lines 358-364: the field's OPC UA type
OpcTypeOf(self, field_name, field_def) ==
    LET declared == IF field_def.dataTypeIsDict THEN field_def.typeId ELSE None
    IN  IF ~TruthyId(declared) THEN _get_type_from_context(self, field_name) ELSE declared

\* validate, lines 368-372: the field's profile reference
ProfileRefOf(field_def) ==
    IF field_def.dataTypeIsDict THEN field_def.profileReference ELSE NoRef

\* validate, line 349
FieldPath(prefix, field_name) ==
    IF prefix # <<>> THEN prefix \o <<".">> \o StrOf(field_name) ELSE StrOf(field_name)

\* validate, line 388; i counts from 0
ItemPath(p, i) == p \o <<"[", ToString(i), "]">>

\* FindReferencedProfile matching a key only when it equals the reference
FindReferencedProfileExact(refs, profile_ref) ==
    LET hits == {i \in 1..Len(refs) : refs[i].ns = profile_ref}
    IN  IF hits = {} THEN 0 ELSE CHOOSE i \in hits : \A j \in hits : i <= j

\* _validate_nested_profile, lines 292-295: the index in referenced_profiles
\* of the first matching entry, 0 when there is none
FindReferencedProfile(refs, profile_ref) ==
    LET hits == {i \in 1..Len(refs) :
                    IsSubstring(refs[i].ns, profile_ref) \/ IsSubstring(profile_ref, refs[i].ns)}
    IN  IF hits = {} THEN 0 ELSE CHOOSE i \in hits : \A j \in hits : i <= j

\* NotLoadedErrors as the comment of line 298 has it: no failure
NotLoadedIgnored(profile_ref, p) == <<>>

\* _validate_nested_profile, lines 297-304
NotLoadedErrors(profile_ref, p) ==
    <<ValidationError(p,
        <<"Could not validate against referenced profile (not loaded): ">> \o profile_ref,
        None, None)>>

\* NotObjectResult always naming the root
NotObjectResultAtRoot(pl, prefix) ==
    ValidationResult(FALSE,
        <<ValidationError(<<"$">>, <<"Payload must be an object">>, "object", pl.t)>>,
        <<>>)

\* NotObjectResult with the flag left at its usual initial value
NotObjectResultValid(pl, prefix) ==
    ValidationResult(TRUE,
        <<ValidationError(IF prefix # <<>> THEN prefix ELSE <<"$">>,
                          <<"Payload must be an object">>, "object", pl.t)>>,
        <<>>)

\* validate, lines 329-338
NotObjectResult(pl, prefix) ==
    ValidationResult(FALSE,
        <<ValidationError(IF prefix # <<>> THEN prefix ELSE <<"$">>,
                          <<"Payload must be an object">>, "object", pl.t)>>,
        <<>>)

\* NamespaceWarnings testing that the key is there instead of the value's truth
NamespaceWarningsPresent(self, pl) ==
    LET present == "$namespace" \in DOMAIN pl.fields
        payload_ns == IF present THEN pl.fields["$namespace"] ELSE PyStr(<<>>)
        differs == payload_ns.t # "str" \/ payload_ns.s # self.namespace
    IN  IF present /\ self.namespace # <<>> /\ differs
        THEN << <<"Payload namespace '">> \o PyFormat(payload_ns)
                \o <<"' doesn't match profile namespace '">> \o self.namespace \o <<"'">> >>
        ELSE <<>>

\* validate, lines 340-345
NamespaceWarnings(self, pl) ==
    LET present == "$namespace" \in DOMAIN pl.fields
        payload_ns == IF present THEN pl.fields["$namespace"] ELSE PyStr(<<>>)
        differs == payload_ns.t # "str" \/ payload_ns.s # self.namespace
    IN  IF Truthy(payload_ns) /\ self.namespace # <<>> /\ differs
        THEN << <<"Payload namespace '">> \o PyFormat(payload_ns)
                \o <<"' doesn't match profile namespace '">> \o self.namespace \o <<"'">> >>
        ELSE <<>>

\* validate, lines 376-384
ExpectedArrayErrors(v, p) ==
    <<ValidationError(p, <<"Expected array">>, "array", v.t)>>

RECURSIVE validate(_, _, _)
RECURSIVE _validate_nested_profile(_, _, _, _)
RECURSIVE ItemsErrors(_, _, _, _, _, _)
RECURSIVE FieldsErrors(_, _, _, _)

\* ProfileValidator._validate_nested_profile
_validate_nested_profile(self, v, profile_ref, p) ==
    LET at == FindReferencedProfile(self.referenced_profiles, profile_ref)
    IN  IF at = 0
        THEN NotLoadedErrors(profile_ref, p)
        ELSE validate(ProfileValidator(self.referenced_profiles[at].profile,
                                       self.referenced_profiles), v, p).errors

\* validate, lines 390-398: one element of an array field
ItemErrors(self, item, profile_ref, ot, item_path) ==
    IF TruthyStr(profile_ref) THEN _validate_nested_profile(self, item, profile_ref, item_path)
    ELSE IF TruthyId(ot) THEN _validate_opc_type(item, ot, item_path)
    ELSE <<>>

\* validate, lines 387-398: the errors of the first n elements
ItemsErrors(self, items, profile_ref, ot, p, n) ==
    IF n = 0 THEN <<>>
    ELSE ItemsErrors(self, items, profile_ref, ot, p, n - 1)
         \o ItemErrors(self, items[n], profile_ref, ot, ItemPath(p, n - 1))

\* SingleErrors with the two branches in the other order
SingleErrorsTypeFirst(self, v, profile_ref, ot, p) ==
    IF TruthyId(ot) THEN _validate_opc_type(v, ot, p)
    ELSE IF TruthyStr(profile_ref) THEN _validate_nested_profile(self, v, profile_ref, p)
    ELSE <<>>

\* validate, lines 401-406: a single value
SingleErrors(self, v, profile_ref, ot, p) ==
    IF TruthyStr(profile_ref) THEN _validate_nested_profile(self, v, profile_ref, p)
    ELSE IF TruthyId(ot) THEN _validate_opc_type(v, ot, p)
    ELSE <<>>

\* FieldErrors going on to check a value that is not a list as a single value
FieldErrorsDescend(self, pl, prefix, field_name, field_def) ==
    LET p == FieldPath(prefix, field_name)
    IN  IF field_name \notin DOMAIN pl.fields THEN <<>>
        ELSE LET v == pl.fields[field_name]
                 ot == OpcTypeOf(self, field_name, field_def)
                 profile_ref == ProfileRefOf(field_def)
             IN  IF field_def.isArray
                 THEN IF v.t # "list"
                      THEN ExpectedArrayErrors(v, p) \o SingleErrors(self, v, profile_ref, ot, p)
                      ELSE ItemsErrors(self, v.items, profile_ref, ot, p, Len(v.items))
                 ELSE SingleErrors(self, v, profile_ref, ot, p)

\* FieldErrors with every field required
FieldErrorsRequired(self, pl, prefix, field_name, field_def) ==
    LET p == FieldPath(prefix, field_name)
    IN  IF field_name \notin DOMAIN pl.fields
        THEN <<ValidationError(p, <<"Missing required field">>, None, None)>>
        ELSE LET v == pl.fields[field_name]
                 ot == OpcTypeOf(self, field_name, field_def)
                 profile_ref == ProfileRefOf(field_def)
             IN  IF field_def.isArray
                 THEN IF v.t # "list"
                      THEN ExpectedArrayErrors(v, p)
                      ELSE ItemsErrors(self, v.items, profile_ref, ot, p, Len(v.items))
                 ELSE SingleErrors(self, v, profile_ref, ot, p)

\* validate, lines 349-406: one iteration of the loop over self.fields
FieldErrors(self, pl, prefix, field_name, field_def) ==
    LET p == FieldPath(prefix, field_name)
    IN  IF field_name \notin DOMAIN pl.fields THEN <<>>
        ELSE LET v == pl.fields[field_name]
                 ot == OpcTypeOf(self, field_name, field_def)
                 profile_ref == ProfileRefOf(field_def)
             IN  IF field_def.isArray
                 THEN IF v.t # "list"
                      THEN ExpectedArrayErrors(v, p)
                      ELSE ItemsErrors(self, v.items, profile_ref, ot, p, Len(v.items))
                 ELSE SingleErrors(self, v, profile_ref, ot, p)

\* FieldsErrors putting each field's errors in front of the earlier ones
FieldsErrorsReversed(self, pl, prefix, n) ==
    IF n = 0 THEN <<>>
    ELSE FieldErrors(self, pl, prefix, self.fields[n].name, self.fields[n].def)
         \o FieldsErrors(self, pl, prefix, n - 1)

\* validate, lines 348-406: the errors of the first n fields
FieldsErrors(self, pl, prefix, n) ==
    IF n = 0 THEN <<>>
    ELSE FieldsErrors(self, pl, prefix, n - 1)
         \o FieldErrors(self, pl, prefix, self.fields[n].name, self.fields[n].def)

\* validate, line 408
FinalResult(errs, warnings) == ValidationResult(Len(errs) = 0, errs, warnings)

\* ProfileValidator.validate
validate(self, pl, prefix) ==
    IF pl.t # "dict"
    THEN NotObjectResult(pl, prefix)
    ELSE FinalResult(FieldsErrors(self, pl, prefix, Len(self.fields)),
                     NamespaceWarnings(self, pl))

\* validate_payload, with the profile already loaded
validate_payload(pl, prof, refs) == validate(ProfileValidator(prof, refs), pl, <<>>)

(***************************************************************************)
(* Inputs: profiles, referenced-profile maps, payloads                     *)
(***************************************************************************)
\* longest list in a payload
MaxItems == 2

\* deepest chain of nested objects in a payload
MaxNest == 3

NsA == <<"n", "/", "A">>

NsB == <<"n", "/", "B">>

RefA == NsA

RefB == NsB

\* no key of a referenced-profile map matches it
RefX == <<"n", "/", "X">>

\* the key n/B is a substring of it
RefBLong == <<"n", "/", "B", "#", "1">>

\* it is a substring of the key n/B
RefBShort == <<"/", "B">>

\* it is a substring of both keys
RefAny == <<"n", "/">>

StrS == <<"s">>

NoContext == [k \in {} |-> [isDict |-> FALSE, type |-> None]]

Def(name, typeId, ref, isArray) ==
    [fieldName |-> name, browseName |-> name, dataTypeIsDict |-> TRUE, typeId |-> typeId,
     profileReference |-> ref, isArray |-> isArray]

ObjectType(attributes, id, context) ==
    [isDataType |-> FALSE, fields |-> <<>>, attributes |-> attributes, id |-> id, context |-> context]

DataType(fields, id, context) ==
    [isDataType |-> TRUE, fields |-> fields, attributes |-> <<>>, id |-> id, context |-> context]

\* A and B refer to each other
ProfA ==
    ObjectType(<<Def("a", "opc:Int16", RefB, FALSE), Def("b", "opc:String", NoRef, TRUE)>>,
               NsA, NoContext)

ProfB ==
    DataType(<<Def("a", None, RefA, FALSE), Def("b", "opc:Int16", NoRef, FALSE)>>,
             NsB, NoContext)

RefMaps ==
    {<<>>,
     <<[ns |-> NsB, profile |-> ProfB]>>,
     <<[ns |-> NsA, profile |-> ProfA], [ns |-> NsB, profile |-> ProfB]>>,
     <<[ns |-> NsB, profile |-> ProfB], [ns |-> NsA, profile |-> ProfA]>>}

\* every combination of type, reference and array-ness for the field a
ADefs ==
    {Def("a", t, r, arr) : t \in {None, "opc:Int16", "opc:TimeZoneDataType", "custom:Thing"},
                           r \in {NoRef, RefB, RefX}, arr \in BOOLEAN}

BInt16 == Def("b", "opc:Int16", NoRef, FALSE)

BItems == Def("b", "opc:String", RefBShort, TRUE)

SingleProfiles == {ObjectType(<<d>>, NsA, NoContext) : d \in ADefs}

\* two fields, in both orders
PairProfiles ==
    {ObjectType(<<d, e>>, NsA, NoContext) :
        d \in {Def("a", "opc:Int16", NoRef, arr) : arr \in BOOLEAN}
              \cup {Def("a", "opc:TimeZoneDataType", r, FALSE) : r \in {NoRef, RefX}}
              \cup {Def("a", None, RefB, TRUE)},
        e \in {BInt16, BItems}}
    \cup {ObjectType(<<e, d>>, NsA, NoContext) :
        d \in {Def("a", "opc:TimeZoneDataType", NoRef, FALSE), Def("a", None, RefB, TRUE)},
        e \in {BInt16, BItems}}

SpecialProfiles ==
    {\* an empty reference next to a type
     ObjectType(<<Def("a", "opc:Int16", <<>>, FALSE)>>, NsA, NoContext),
     \* an empty type identifier
     ObjectType(<<Def("a", "", NoRef, TRUE)>>, NsA, NoContext),
     \* "cesmii:dataType" is not an object
     ObjectType(<<[Def("a", "opc:Int16", RefB, FALSE) EXCEPT !.dataTypeIsDict = FALSE]>>,
                NsA, NoContext),
     \* the type comes from "@context"
     ObjectType(<<Def("a", None, NoRef, FALSE)>>, NsA,
                [k \in {"a"} |-> [isDict |-> TRUE, type |-> "opc:Int16"]]),
     ObjectType(<<Def("a", None, NoRef, TRUE)>>, NsA,
                [k \in {"a", "b"} |-> [isDict |-> k = "b", type |-> "opc:Int16"]]),
     \* a field whose name is the empty string
     ObjectType(<<Def("", "opc:Int16", RefB, FALSE)>>, NsA, NoContext),
     \* references that match a key only as a substring
     ObjectType(<<Def("a", None, RefBLong, FALSE)>>, NsA, NoContext),
     ObjectType(<<Def("a", None, RefAny, FALSE)>>, NsA, NoContext),
     \* a DataType profile whose fields carry no "cesmii:fieldName"
     DataType(<<[Def("a", "opc:Int16", NoRef, FALSE) EXCEPT !.fieldName = None]>>, NsA, NoContext),
     \* a repeated field name
     ObjectType(<<Def("a", "opc:Int16", NoRef, FALSE), BInt16, Def("a", "opc:String", NoRef, TRUE)>>,
                NsA, NoContext),
     \* a profile without "@id"
     ObjectType(<<Def("a", "opc:Int16", NoRef, FALSE)>>, <<>>, NoContext),
     ProfA, ProfB}

Profiles == SingleProfiles \cup PairProfiles \cup SpecialProfiles

\* a key that the payload does not have
Absent == [t |-> "absent", neg |-> FALSE, mag |-> <<0>>, s |-> <<>>, items |-> <<>>, fields |-> NoFields]

\* the dict of the keys of kv that are not Absent
DictOf(kv) == PyDict([k \in {k \in DOMAIN kv : kv[k] # Absent} |-> kv[k]])

RECURSIVE Chain(_)
\* {"a": {"a": ... 40000}}, n objects deep
Chain(n) == IF n = 0 THEN PyInt(FALSE, <<4, 0>>) ELSE PyDict([k \in {"a"} |-> Chain(n - 1)])

Items == {PyInt(FALSE, <<1>>), PyDict([k \in {"a", "b"} |-> PyStr(StrS)])}

Lists == {PyList(l) : l \in UNION {[1..n -> Items] : n \in 0..MaxItems}}

TzGood ==
    PyDict([k \in {"offset", "daylightSavingInOffset"} |->
               IF k = "offset" THEN PyInt(TRUE, <<360>>) ELSE PyBool(FALSE)])

\* {"offset": 99999, "daylightSavingInOffset": false}
TzOffsetOutOfRange ==
    PyDict([k \in {"offset", "daylightSavingInOffset"} |->
               IF k = "offset" THEN PyInt(FALSE, <<9, 9999>>) ELSE PyBool(FALSE)])

\* {"$namespace": "n/A"}: as a nested value it names another namespace than
\* profile B's
NestedNs == PyDict([k \in {"$namespace"} |-> PyStr(NsA)])

AValues ==
    {PyInt(FALSE, <<1>>), PyInt(FALSE, <<4, 0>>), PyBool(TRUE), PyStr(StrS), PyNone,
     PyFloat(FALSE, <<108, 5>>), TzGood, TzOffsetOutOfRange, PyDict(NoFields),
     PyDict([k \in {"a", "b"} |-> PyStr(StrS)]), NestedNs}
    \cup {Chain(n) : n \in 1..MaxNest} \cup Lists

BValues == {PyInt(FALSE, <<1>>), PyList(<<PyDict([k \in {"a", "b"} |-> PyStr(StrS)])>>)}

\* an undefined key and "$namespace", one at a time
Extras ==
    {[z |-> Absent, ns |-> Absent],
     [z |-> PyInt(FALSE, <<4, 0>>), ns |-> Absent],
     [z |-> Absent, ns |-> PyStr(NsA)],
     [z |-> Absent, ns |-> PyStr(NsB)],
     [z |-> Absent, ns |-> PyStr(<<>>)],
     [z |-> Absent, ns |-> PyBool(TRUE)]}

DictPayloads ==
    {DictOf([k \in {"a", "b", "z", "$namespace"} |->
                CASE k = "a" -> a [] k = "b" -> b [] k = "z" -> x.z [] k = "$namespace" -> x.ns]) :
        a \in AValues \cup {Absent}, b \in BValues \cup {Absent}, x \in Extras}
    \cup {PyDict([k \in {""} |-> v]) : v \in {PyInt(FALSE, <<1>>), PyDict(NoFields)}}

NonDictPayloads == {PyNone, PyInt(FALSE, <<1>>), PyStr(StrS), PyList(<<>>)}

Payloads == DictPayloads \cup NonDictPayloads

Prefixes == {<<>>, <<"p">>}

EmptyProfile == ObjectType(<<>>, <<>>, NoContext)

NoResult == ValidationResult(TRUE, <<>>, <<>>)

(***************************************************************************)
(* Spec: validate on a validator built from a profile and a map of         *)
(* referenced profiles, and the nested validators it creates               *)
(***************************************************************************)
Init ==
    /\ profile \in Profiles
    /\ referenced_profiles \in RefMaps
    /\ payload \in Payloads
    /\ path_prefix \in Prefixes
    /\ result = NoResult
    /\ depth = 0
    /\ value = PyNone
    /\ opc_type = None
    /\ path = <<>>
    /\ errors = <<>>
    /\ pc = "start"

\* validator.validate(payload, path_prefix) returns
Validate ==
    /\ pc = "start"
    /\ result' = validate(ProfileValidator(profile, referenced_profiles), payload, path_prefix)
    /\ pc' = "validate"
    /\ UNCHANGED <<profile, referenced_profiles, payload, path_prefix, depth, value, opc_type,
                   path, errors>>

\* the nested calls of the call validate(self, pl, prefix): <<profile, value, path>>
\* NestedCalls handing the nested validator the payload instead of the value
NestedCallsOnPayload(self, pl, prefix) ==
    IF pl.t # "dict" THEN {}
    ELSE UNION {
        LET f == self.fields[k]
            ref == ProfileRefOf(f.def)
            at == FindReferencedProfile(self.referenced_profiles, ref)
            p == FieldPath(prefix, f.name)
        IN  IF f.name \notin DOMAIN pl.fields \/ ~TruthyStr(ref) \/ at = 0 THEN {}
            ELSE {<<self.referenced_profiles[at].profile, pl, p>>}
        : k \in 1..Len(self.fields)}

NestedCalls(self, pl, prefix) ==
    IF pl.t # "dict" THEN {}
    ELSE UNION {
        LET f == self.fields[k]
            ref == ProfileRefOf(f.def)
            at == FindReferencedProfile(self.referenced_profiles, ref)
            p == FieldPath(prefix, f.name)
        IN  IF f.name \notin DOMAIN pl.fields \/ ~TruthyStr(ref) \/ at = 0 THEN {}
            ELSE LET prof == self.referenced_profiles[at].profile
                     v == pl.fields[f.name]
                 IN  IF ~f.def.isArray THEN {<<prof, v, p>>}
                     ELSE IF v.t # "list" THEN {}
                     ELSE {<<prof, v.items[i], ItemPath(p, i - 1)>> : i \in 1..Len(v.items)}
        : k \in 1..Len(self.fields)}

\* one of the nested validators created by the last call returns
NestedValidate ==
    /\ pc = "validate"
    /\ \E c \in NestedCalls(ProfileValidator(profile, referenced_profiles), payload, path_prefix) :
          /\ profile' = c[1]
          /\ payload' = c[2]
          /\ path_prefix' = c[3]
          /\ result' = validate(ProfileValidator(c[1], referenced_profiles), c[2], c[3])
    /\ depth' = depth + 1
    /\ UNCHANGED <<referenced_profiles, value, opc_type, path, errors, pc>>

Next == Validate \/ NestedValidate

Spec == Init /\ [][Next]_vars

(***************************************************************************)
(* SpecOpc: the primitive type check and the TimeZoneDataType check, each  *)
(* applied to a value, a type identifier and a path                        *)
(***************************************************************************)
\* the bounds of the integer types, and the integers next to them
BoundaryInts ==
    {PyInt(FALSE, <<0>>), PyInt(FALSE, <<1>>), PyInt(TRUE, <<1>>),
     PyInt(FALSE, <<3, 2767>>), PyInt(FALSE, <<3, 2768>>),
     PyInt(TRUE, <<3, 2768>>), PyInt(TRUE, <<3, 2769>>),
     PyInt(FALSE, <<6, 5535>>), PyInt(FALSE, <<6, 5536>>),
     PyInt(FALSE, <<21, 4748, 3647>>), PyInt(FALSE, <<21, 4748, 3648>>),
     PyInt(TRUE, <<21, 4748, 3648>>), PyInt(TRUE, <<21, 4748, 3649>>),
     PyInt(FALSE, <<42, 9496, 7295>>), PyInt(FALSE, <<42, 9496, 7296>>),
     PyInt(FALSE, <<922, 3372, 368, 5477, 5807>>), PyInt(FALSE, <<922, 3372, 368, 5477, 5808>>),
     PyInt(TRUE, <<922, 3372, 368, 5477, 5808>>), PyInt(TRUE, <<922, 3372, 368, 5477, 5809>>),
     PyInt(FALSE, <<1844, 6744, 737, 955, 1615>>), PyInt(FALSE, <<1844, 6744, 737, 955, 1616>>)}

StrUtc == <<"2", "0", "2", "6", "-", "0", "1", "-", "1", "6", "T", "1", "4", ":", "0", "2", ":", "3", "7", "Z">>

StrLocal == <<"2", "0", "2", "6", "-", "0", "1", "-", "1", "6", "T", "1", "4", ":", "0", "2", ":", "3", "7">>

StrUtcFraction == <<"2", "0", "2", "6", "-", "0", "1", "-", "1", "6", "T", "1", "4", ":", "0", "2", ":", "3", "7", ".", "7", "Z">>

StrWord == <<"n", "o", "t", "-", "a", "-", "n", "u", "m", "b", "e", "r">>

StrGuid == <<"e", "6", "8", "3", "0", "8", "b", "c", "-", "4", "f", "8", "5", "-", "4", "6", "f", "8", "-", "8", "7", "7", "8", "-", "7", "3", "e", "f", "e", "5", "1", "1", "9", "0", "9", "6">>

StrGuidBad == <<"e", "6", "8", "3", "0", "8", "b", "c", "-", "4", "f", "8", "5", "-", "4", "6", "f", "8", "-", "8", "7", "7", "8", "-", "7", "3", "e", "f", "e", "5", "1", "1", "9", "0", "9", "g">>

Strings ==
    {PyStr(<<>>), PyStr(StrWord), PyStr(StrUtc), PyStr(StrLocal), PyStr(StrUtcFraction),
     PyStr(StrUtc \o <<"\n">>), PyStr(StrGuid), PyStr(StrGuidBad)}

\* objects with each kind of offset and of daylightSavingInOffset
TimezoneObjects ==
    {DictOf([k \in {"offset", "daylightSavingInOffset", "z"} |->
                CASE k = "offset" -> o [] k = "daylightSavingInOffset" -> d [] k = "z" -> Absent]) :
        o \in {Absent, PyInt(TRUE, <<360>>), PyInt(FALSE, <<9, 9999>>), PyInt(TRUE, <<3, 2769>>),
               PyBool(TRUE), PyBool(FALSE), PyStr(StrS), PyFloat(FALSE, <<1, 5>>), PyNone},
        d \in {Absent, PyBool(FALSE), PyBool(TRUE), PyInt(FALSE, <<1>>), PyStr(StrS), PyNone}}

OpcValues ==
    BoundaryInts \cup Strings \cup TimezoneObjects
    \cup {PyBool(TRUE), PyBool(FALSE), PyNone, PyFloat(FALSE, <<108, 5>>)}
    \cup {PyList(l) : l \in UNION {[1..n -> {PyInt(FALSE, <<1>>)}] : n \in 0..MaxItems}}

\* the identifiers of the table, TimeZoneDataType, and identifiers not in the table
OpcTypeIds == OPC_TYPES \cup {"opc:TimeZoneDataType", "custom:Thing", "Int16", ""}

Paths == {<<"a">>, <<"p", ".", "a", "[", "0", "]">>}

InitOpc ==
    /\ profile = EmptyProfile
    /\ referenced_profiles = <<>>
    /\ payload = PyNone
    /\ path_prefix = <<>>
    /\ result = NoResult
    /\ depth = 0
    /\ value \in OpcValues
    /\ opc_type \in OpcTypeIds
    /\ path \in Paths
    /\ errors = <<>>
    /\ pc = "start"

\* self._validate_opc_type(value, opc_type, path) returns
ValidateOpcType ==
    /\ pc = "start"
    /\ errors' = _validate_opc_type(value, opc_type, path)
    /\ pc' = "_validate_opc_type"
    /\ UNCHANGED <<profile, referenced_profiles, payload, path_prefix, result, depth, value,
                   opc_type, path>>

\* self._validate_timezone(value, path) returns
ValidateTimezone ==
    /\ pc = "start"
    /\ errors' = _validate_timezone(value, path)
    /\ pc' = "_validate_timezone"
    /\ UNCHANGED <<profile, referenced_profiles, payload, path_prefix, result, depth, value,
                   opc_type, path>>

NextOpc == ValidateOpcType \/ ValidateTimezone

SpecOpc == InitOpc /\ [][NextOpc]_vars

(***************************************************************************)
(* Properties                                                              *)
(***************************************************************************)
\* the validator of the current call
Self == ProfileValidator(profile, referenced_profiles)

\* validate has returned on an object payload
ReturnedOnObject == pc = "validate" /\ payload.t = "dict"

\* the k-th field of the validator's table: its path, whether the payload has
\* it, its value, its profile reference and its resolved type
PathOf(k) == FieldPath(path_prefix, Self.fields[k].name)

Present(k) == Self.fields[k].name \in DOMAIN payload.fields

ValueOf(k) == payload.fields[Self.fields[k].name]

RefOf(k) == ProfileRefOf(Self.fields[k].def)

TypeOf(k) == OpcTypeOf(Self, Self.fields[k].name, Self.fields[k].def)

IsArrayField(k) == Self.fields[k].def.isArray

\* the errors of the result located at p or below it, in the result's order
ErrorsUnder(p) == SelectSeq(result.errors, LAMBDA e : IsPrefix(p, e.path))

RECURSIVE Concat(_)
\* the concatenation of a sequence of sequences
Concat(ss) == IF ss = <<>> THEN <<>> ELSE ss[1] \o Concat(Tail(ss))

\* C1: every ValidationResult that validate returns, from the root validator or
\* from a nested one, on an object or on anything else, has valid true exactly
\* when its error list is empty.
C1_ValidIffNoErrors ==
    pc = "validate" => (result.valid <=> result.errors = <<>>)

\* C1 witness: a nested validator has returned early on a non-object value
C1_Witness ==
    /\ pc = "validate"
    /\ depth > 0
    /\ payload.t # "dict"
    /\ ~result.valid
    /\ Len(result.errors) = 1

IntegerTypes == {"opc:Int16", "opc:Int32", "opc:Int64", "opc:UInt16", "opc:UInt32", "opc:UInt64"}

\* the dot-separated path of a sub-field of a TimeZoneDataType value at p
OffsetPathOf(p) == p \o <<".", "o", "f", "f", "s", "e", "t">>

DaylightPathOf(p) == p \o DaylightPath

\* C2: the primitive type check of an integer type on a boolean value returns
\* an "Invalid type" error, and so does the TimeZoneDataType check for a
\* boolean offset.
C2_BooleanExclusion ==
    /\ (pc = "_validate_opc_type" /\ opc_type \in IntegerTypes /\ value.t = "bool")
          => (Len(errors) = 1 /\ errors[1].message = <<"Invalid type">>)
    /\ (pc = "_validate_timezone" /\ value.t = "dict" /\ "offset" \in DOMAIN value.fields
          /\ value.fields["offset"].t = "bool")
          => \E i \in 1..Len(errors) :
                errors[i].path = OffsetPathOf(path) /\ errors[i].message = <<"Invalid type">>

\* the elements of the list under the k-th field
ItemsOf(k) == ValueOf(k).items

\* the text that starts the message of an unresolved reference
NotLoadedText == "Could not validate against referenced profile (not loaded): "

\* the message holds the text "not loaded" and then the reference
IsNotLoadedMessage(m, ref) == m = <<NotLoadedText>> \o ref /\ IsSubstring(ref, m)

IsNotObjectError(e, p) ==
    e.path = p /\ e.message = <<"Payload must be an object">> /\ e.expected = "object"

\* C3: a field that declares both a type identifier and a profile reference is
\* checked through the nested profile alone: the errors at its path are those
\* of the nested-profile validation of the value (scalar field) or of each
\* element in turn (array field with a list value), and for an array field with
\* a value that is not a list just the array error; never a primitive-check error.
C3_NestedReferencePriority ==
    ReturnedOnObject =>
        \A k \in 1..Len(Self.fields) :
            (Present(k) /\ TruthyStr(RefOf(k)) /\ TruthyId(TypeOf(k))) =>
                IF ~IsArrayField(k)
                THEN ErrorsUnder(PathOf(k))
                        = _validate_nested_profile(Self, ValueOf(k), RefOf(k), PathOf(k))
                ELSE IF ValueOf(k).t = "list"
                THEN ErrorsUnder(PathOf(k))
                        = Concat([i \in 1..Len(ItemsOf(k)) |->
                                    _validate_nested_profile(Self, ItemsOf(k)[i], RefOf(k),
                                                             ItemPath(PathOf(k), i - 1))])
                ELSE ErrorsUnder(PathOf(k)) = ExpectedArrayErrors(ValueOf(k), PathOf(k))

\* C3 witness: the primitive check would have reported the value, the nested
\* profile accepts it, and the field has no error
C3_Witness ==
    /\ ReturnedOnObject
    /\ \E k \in 1..Len(Self.fields) :
          /\ Present(k) /\ TruthyStr(RefOf(k)) /\ TruthyId(TypeOf(k)) /\ ~IsArrayField(k)
          /\ FindReferencedProfile(referenced_profiles, RefOf(k)) # 0
          /\ _validate_opc_type(ValueOf(k), TypeOf(k), PathOf(k)) # <<>>
          /\ ErrorsUnder(PathOf(k)) = <<>>

\* the k-th field declares a reference that no key of referenced_profiles matches
Unresolved(k) ==
    TruthyStr(RefOf(k)) /\ FindReferencedProfile(referenced_profiles, RefOf(k)) = 0

C5_ArrayDispatch ==
    ReturnedOnObject =>
        \A k \in 1..Len(Self.fields) :
            (Present(k) /\ IsArrayField(k) /\ ValueOf(k).t # "list") =>
                LET es == ErrorsUnder(PathOf(k))
                IN  /\ Len(es) = 1
                    /\ es[1].path = PathOf(k)
                    /\ es[1].message = <<"Expected array">>
                    /\ es[1].expected = "array"

\* C5 witness: the field declares a type and a reference, and the value is a
\* string, which either check would have reported
C5_Witness ==
    /\ ReturnedOnObject
    /\ \E k \in 1..Len(Self.fields) :
          /\ Present(k) /\ IsArrayField(k) /\ ValueOf(k).t = "str"
          /\ TruthyStr(RefOf(k)) /\ TypeOf(k) = "opc:Int16"
          /\ Len(result.errors) = 1

\* the payload without the keys that the profile does not define
DefinedPart(pl) ==
    PyDict([key \in DOMAIN pl.fields \cap {Self.fields[k].name : k \in 1..Len(Self.fields)} |->
               pl.fields[key]])

\* C6: a defined field that the payload lacks yields no error; the keys that the
\* profile does not define change neither the errors nor the flag; the empty
\* object is valid against every profile.
C6_OptionalAndUnknownFields ==
    ReturnedOnObject =>
        /\ \A k \in 1..Len(Self.fields) : ~Present(k) => ErrorsUnder(PathOf(k)) = <<>>
        /\ LET r == validate(Self, DefinedPart(payload), path_prefix)
           IN  r.errors = result.errors /\ r.valid = result.valid
        /\ (DOMAIN payload.fields = {} => (result.valid /\ result.errors = <<>>))

\* C6 witness: a defined field is absent, an undefined key is present, and
\* another field has produced an error
C6_Witness ==
    /\ ReturnedOnObject
    /\ "z" \in DOMAIN payload.fields
    /\ \E k \in 1..Len(Self.fields) : ~Present(k)
    /\ result.errors # <<>>

KnownTypes == OPC_TYPES \cup {"opc:TimeZoneDataType"}

\* C7: a field without a profile reference whose resolved type is not in the
\* table and is not TimeZoneDataType (or that resolves to no type) yields no
\* error for any value (scalar field) or any list (array field).
C7_UnknownTypePassThrough ==
    ReturnedOnObject =>
        \A k \in 1..Len(Self.fields) :
            (/\ Present(k)
             /\ ~TruthyStr(RefOf(k))
             /\ TypeOf(k) \notin KnownTypes
             /\ (IsArrayField(k) => ValueOf(k).t = "list")) =>
                ErrorsUnder(PathOf(k)) = <<>>

\* C7 witness: an array field of a custom type holds a list of two elements
C7_Witness ==
    /\ ReturnedOnObject
    /\ \E k \in 1..Len(Self.fields) :
          /\ Present(k) /\ ~TruthyStr(RefOf(k)) /\ TypeOf(k) = "custom:Thing"
          /\ IsArrayField(k) /\ ValueOf(k).t = "list" /\ Len(ItemsOf(k)) = 2
          /\ result.valid

\* the k-th field declares a reference that a key of referenced_profiles matches
Resolved(k) ==
    TruthyStr(RefOf(k)) /\ FindReferencedProfile(referenced_profiles, RefOf(k)) # 0

\* validate on a payload that is not an object: valid is false, there is no
\* warning, and the one error is at the prefix, or at "$" for the empty prefix
NonObjectReturn ==
    (pc = "validate" /\ payload.t # "dict") =>
        /\ ~result.valid
        /\ result.warnings = <<>>
        /\ Len(result.errors) = 1
        /\ IsNotObjectError(result.errors[1], IF path_prefix # <<>> THEN path_prefix ELSE <<"$">>)

\* a non-object under the k-th field, whose reference resolves, yields exactly
\* one error, at the path of the field or of the element
NonObjectUnderField(k) ==
    IF ~IsArrayField(k)
    THEN ValueOf(k).t # "dict" =>
            /\ Len(ErrorsUnder(PathOf(k))) = 1
            /\ IsNotObjectError(ErrorsUnder(PathOf(k))[1], PathOf(k))
    ELSE ValueOf(k).t = "list" =>
            \A i \in 1..Len(ItemsOf(k)) :
                ItemsOf(k)[i].t # "dict" =>
                    LET es == ErrorsUnder(ItemPath(PathOf(k), i - 1))
                    IN  Len(es) = 1 /\ IsNotObjectError(es[1], ItemPath(PathOf(k), i - 1))

\* C8: validate on a payload that is not an object returns valid = false, no
\* warning and the one error "Payload must be an object" at the prefix, or at
\* "$" for the empty prefix; hence a non-object under a field with a resolvable
\* reference yields exactly that one error at the field's or element's path.
C8_NonObjectPayload ==
    /\ NonObjectReturn
    /\ ReturnedOnObject =>
          \A k \in 1..Len(Self.fields) : (Present(k) /\ Resolved(k)) => NonObjectUnderField(k)

\* as NonObjectUnderField, with the error of a scalar field whose path is the
\* empty string at "$"
NonObjectUnderFieldOrRoot(k) ==
    IF ~IsArrayField(k)
    THEN ValueOf(k).t # "dict" =>
            /\ Len(ErrorsUnder(PathOf(k))) = 1
            /\ IsNotObjectError(ErrorsUnder(PathOf(k))[1],
                                IF PathOf(k) # <<>> THEN PathOf(k) ELSE <<"$">>)
    ELSE NonObjectUnderField(k)

\* C8 amended: as C8, except that the error for a non-object under a scalar field
\* whose path is the empty string (a field with the empty name, validated with
\* the empty prefix) is at "$".
C8_NonObjectPayloadOrRoot ==
    /\ NonObjectReturn
    /\ ReturnedOnObject =>
          \A k \in 1..Len(Self.fields) :
              (Present(k) /\ Resolved(k)) => NonObjectUnderFieldOrRoot(k)

\* C8 witness: a nested validator has returned on an element that is not an
\* object, under a non-empty prefix
C8_Witness ==
    /\ pc = "validate"
    /\ depth > 0
    /\ payload.t # "dict"
    /\ path_prefix # <<>>
    /\ path_prefix[Len(path_prefix)] = "]"
    /\ result.errors[1].path = path_prefix

\* the TimeZoneDataType check has returned, called directly or through the
\* primitive type check
TimezoneChecked ==
    \/ pc = "_validate_timezone"
    \/ pc = "_validate_opc_type" /\ opc_type = "opc:TimeZoneDataType"

\* the errors of the last primitive check located exactly at p
ErrorsAt(p) == SelectSeq(errors, LAMBDA e : e.path = p)

Int16Min == PyInt(TRUE, <<3, 2768>>)

Int16Max == PyInt(FALSE, <<3, 2767>>)

\* C9: a value that is not an object yields the one error "TimeZoneDataType
\* must be an object"; for an object the errors are those of the offset check
\* (missing, not a number of integer kind, or an integer outside the Int16 range)
\* followed by those of the
\* daylightSavingInOffset check (missing, or not a boolean), at most one each and
\* each decided by its own key alone; {offset: 99999, daylightSavingInOffset:
\* false} yields one error, on offset.
C9_TimeZoneCheck ==
    TimezoneChecked =>
        IF value.t # "dict"
        THEN /\ Len(errors) = 1
             /\ errors[1].path = path
             /\ errors[1].message = <<"TimeZoneDataType must be an object">>
        ELSE LET off == ErrorsAt(OffsetPathOf(path))
                 dst == ErrorsAt(DaylightPathOf(path))
                 keys == DOMAIN value.fields
             IN  /\ errors = off \o dst
                 /\ Len(off) <= 1
                 /\ Len(dst) <= 1
                 /\ "offset" \notin keys
                       => (Len(off) = 1 /\ off[1].message = <<"Missing required field">>)
                 /\ ("offset" \in keys /\ value.fields["offset"].t = "int")
                       => IF InRange(Int16Min, value.fields["offset"], Int16Max)
                          THEN off = <<>>
                          ELSE Len(off) = 1 /\ off[1].message = <<"Invalid type">>
                 /\ ("offset" \in keys /\ value.fields["offset"].t \notin {"int", "bool"})
                       => (Len(off) = 1 /\ off[1].message = <<"Invalid type">>)
                 /\ "daylightSavingInOffset" \notin keys
                       => (Len(dst) = 1 /\ dst[1].message = <<"Missing required field">>)
                 /\ "daylightSavingInOffset" \in keys
                       => IF value.fields["daylightSavingInOffset"].t = "bool"
                          THEN dst = <<>>
                          ELSE Len(dst) = 1 /\ dst[1].message = <<"Invalid type">>
                 /\ value = TzOffsetOutOfRange => (Len(off) = 1 /\ dst = <<>>)

\* C9 witness: offset is out of range and daylightSavingInOffset is missing, and
\* both are reported
C9_Witness ==
    /\ pc = "_validate_timezone"
    /\ value.t = "dict"
    /\ DOMAIN value.fields = {"offset"}
    /\ value.fields["offset"] = PyInt(FALSE, <<9, 9999>>)
    /\ Len(errors) = 2
    /\ errors[1].path = OffsetPathOf(path)

\* C10: the errors are those of the first field of the profile's table, then
\* those of the second, and so on; the errors of an array field are those of
\* element 0, then those of element 1, and so on; so the errors of a nested
\* validation stay together, where their field or element is.
C10_ErrorOrder ==
    ReturnedOnObject =>
        /\ result.errors = Concat([k \in 1..Len(Self.fields) |-> ErrorsUnder(PathOf(k))])
        /\ \A k \in 1..Len(Self.fields) :
              (Present(k) /\ IsArrayField(k) /\ ValueOf(k).t = "list") =>
                  ErrorsUnder(PathOf(k))
                     = Concat([i \in 1..Len(ItemsOf(k)) |->
                                  ErrorsUnder(ItemPath(PathOf(k), i - 1))])

\* C10 witness: both fields have errors, the first of them from nested
\* validations of two elements with two errors each
C10_Witness ==
    /\ ReturnedOnObject
    /\ Len(Self.fields) = 2
    /\ Present(1) /\ IsArrayField(1) /\ ValueOf(1).t = "list"
    /\ Len(ErrorsUnder(ItemPath(PathOf(1), 0))) = 2
    /\ Len(ErrorsUnder(ItemPath(PathOf(1), 1))) = 2
    /\ ErrorsUnder(PathOf(2)) # <<>>


\* the payload carries "$namespace", the profile's namespace is not empty, and
\* the two differ
NamespaceDiffers ==
    /\ "$namespace" \in DOMAIN payload.fields
    /\ Self.namespace # <<>>
    /\ payload.fields["$namespace"] # PyStr(Self.namespace)

\* the payload without its "$namespace" key
WithoutNamespace ==
    PyDict([k \in DOMAIN payload.fields \ {"$namespace"} |-> payload.fields[k]])

\* some nested validation of the current call returns a warning
NestedWarns ==
    \E c \in NestedCalls(Self, payload, path_prefix) :
        validate(ProfileValidator(c[1], referenced_profiles), c[2], c[3]).warnings # <<>>

NumberLine ==
    <<PyInt(TRUE, <<922, 3372, 368, 5477, 5809>>),   \* -9223372036854775809
      PyInt(TRUE, <<922, 3372, 368, 5477, 5808>>),   \* -9223372036854775808
      PyInt(TRUE, <<21, 4748, 3649>>),               \* -2147483649
      PyInt(TRUE, <<21, 4748, 3648>>),               \* -2147483648
      PyInt(TRUE, <<3, 2769>>),                      \* -32769
      PyInt(TRUE, <<3, 2768>>),                      \* -32768
      PyInt(TRUE, <<1>>),                            \* -1
      PyInt(FALSE, <<0>>),                           \* 0
      PyInt(FALSE, <<1>>),                           \* 1
      PyInt(FALSE, <<3, 2767>>),                     \* 32767
      PyInt(FALSE, <<3, 2768>>),                     \* 32768
      PyInt(FALSE, <<6, 5535>>),                     \* 65535
      PyInt(FALSE, <<6, 5536>>),                     \* 65536
      PyInt(FALSE, <<21, 4748, 3647>>),              \* 2147483647
      PyInt(FALSE, <<21, 4748, 3648>>),              \* 2147483648
      PyInt(FALSE, <<42, 9496, 7295>>),              \* 4294967295
      PyInt(FALSE, <<42, 9496, 7296>>),              \* 4294967296
      PyInt(FALSE, <<922, 3372, 368, 5477, 5807>>),  \* 9223372036854775807
      PyInt(FALSE, <<922, 3372, 368, 5477, 5808>>),  \* 9223372036854775808
      PyInt(FALSE, <<1844, 6744, 737, 955, 1615>>),  \* 18446744073709551615
      PyInt(FALSE, <<1844, 6744, 737, 955, 1616>>)>> \* 18446744073709551616

\* the places on NumberLine of a type's least and greatest value
RangeOnLine(ot) ==
    CASE ot = "opc:Int16" -> <<6, 10>>
      [] ot = "opc:Int32" -> <<4, 14>>
      [] ot = "opc:Int64" -> <<2, 18>>
      [] ot = "opc:UInt16" -> <<8, 12>>
      [] ot = "opc:UInt32" -> <<8, 16>>
      [] ot = "opc:UInt64" -> <<8, 20>>

RangeLabel(ot) ==
    CASE ot = "opc:Int16" -> "integer (-32768 to 32767)"
      [] ot = "opc:Int32" -> "integer (-2147483648 to 2147483647)"
      [] ot = "opc:Int64" -> "integer (64-bit)"
      [] ot = "opc:UInt16" -> "unsigned integer (0 to 65535)"
      [] ot = "opc:UInt32" -> "unsigned integer (0 to 4294967295)"
      [] ot = "opc:UInt64" -> "unsigned integer (64-bit)"

\* the one error of a failed check of an integer type
IsInvalidType(errs, ot, p) ==
    /\ Len(errs) = 1
    /\ errs[1].path = p
    /\ errs[1].message = <<"Invalid type">>
    /\ errs[1].expected = RangeLabel(ot)

\* C12: the check of an integer type on an integer returns no error when the
\* integer lies between the type's least and greatest value, both included, and
\* one "Invalid type" error with the type's range label as expected otherwise,
\* so for the integer just below the least and just above the greatest; the
\* word "not-a-number" checked as Int32 yields that one error too.
C12_RangeBoundaries ==
    (pc = "_validate_opc_type" /\ opc_type \in IntegerTypes) =>
        /\ \A i \in 1..Len(NumberLine) :
              value = NumberLine[i] =>
                 IF RangeOnLine(opc_type)[1] <= i /\ i <= RangeOnLine(opc_type)[2]
                 THEN errors = <<>>
                 ELSE IsInvalidType(errors, opc_type, path)
        /\ value = PyStr(StrWord) => IsInvalidType(errors, opc_type, path)

\* C12 witness: 9223372036854775808, one more than the greatest Int64, was
\* checked as Int64 and refused
C12_Witness ==
    /\ pc = "_validate_opc_type"
    /\ opc_type = "opc:Int64"
    /\ value = NumberLine[19]
    /\ Len(errors) = 1

\* the greatest of a set of naturals, 0 for the empty set
Greatest(S) == IF S = {} THEN 0 ELSE CHOOSE n \in S : \A m \in S : m <= n

RECURSIVE Height(_)
\* how deep a value is nested: 0 for a scalar, one more than its deepest member
\* for an object or a list
Height(v) ==
    CASE v.t = "dict" -> 1 + Greatest({Height(v.fields[k]) : k \in DOMAIN v.fields})
      [] v.t = "list" -> 1 + Greatest({Height(v.items[i]) : i \in 1..Len(v.items)})
      [] OTHER -> 0

\* profile A refers to profile B, B refers to A, and both are loaded
CyclicGraph ==
    /\ Len(referenced_profiles) = 2
    /\ profile \in {ProfA, ProfB}

\* C13 as stated: with profiles A and B that refer to each other, both loaded,
\* the recursion has no end: every nested validation makes a nested validation
\* of its own.
C13_RecursesWithoutBound ==
    (pc = "validate" /\ CyclicGraph /\ depth >= 1)
        => NestedCalls(Self, payload, path_prefix) # {}

\* C13, amended: there is no cycle guard, but a nested validation is given a
\* value held in its caller's payload, a field's value or an element of it, so
\* every nested call is on a value less deeply nested than its caller's and the
\* recursion is as deep as the payload at most, whatever the profiles refer to.
C13_RecursionFollowsPayload ==
    [][depth' = depth + 1 => Height(payload') < Height(payload)]_vars

\* C13 witness: with A and B referring to each other, the third nested
\* validation was given a number and returned with no nested call left
C13_Witness ==
    /\ pc = "validate"
    /\ CyclicGraph
    /\ depth = 3
    /\ payload.t # "dict"
    /\ NestedCalls(Self, payload, path_prefix) = {}

\* the i-th key of referenced_profiles is a substring of the reference ref, or
\* ref is a substring of it
KeyMatches(i, ref) ==
    \/ IsSubstring(referenced_profiles[i].ns, ref)
    \/ IsSubstring(ref, referenced_profiles[i].ns)

\* i is the first entry of referenced_profiles, in its order, whose key matches
IsFirstMatch(i, ref) ==
    /\ i \in 1..Len(referenced_profiles)
    /\ KeyMatches(i, ref)
    /\ \A j \in 1..(i - 1) : ~KeyMatches(j, ref)

\* what a new validator over the i-th referenced profile, given the same map,
\* returns for the value v with the path prefix p
NestedResult(i, v, p) ==
    validate(ProfileValidator(referenced_profiles[i].profile, referenced_profiles), v, p)

\* C14: a field's non-empty profile reference resolves to the first entry of
\* referenced_profiles whose key is a substring of it or has it as a substring;
\* the errors of the result under the field's path (or under each element's
\* path, in turn, for a list under an array field) are exactly the errors that a
\* new validator over that entry's profile, with the same referenced_profiles,
\* returns for the value with that path as prefix, and each of these paths
\* extends the prefix.
C14_NestedResolution ==
    ReturnedOnObject =>
        \A k \in 1..Len(Self.fields) : \A i \in 1..Len(referenced_profiles) :
            (Present(k) /\ TruthyStr(RefOf(k)) /\ IsFirstMatch(i, RefOf(k))) =>
                IF ~IsArrayField(k)
                THEN /\ ErrorsUnder(PathOf(k)) = NestedResult(i, ValueOf(k), PathOf(k)).errors
                     /\ \A n \in 1..Len(ErrorsUnder(PathOf(k))) :
                           IsPrefix(PathOf(k), ErrorsUnder(PathOf(k))[n].path)
                ELSE ValueOf(k).t = "list" =>
                     /\ ErrorsUnder(PathOf(k))
                           = Concat([n \in 1..Len(ItemsOf(k)) |->
                                       NestedResult(i, ItemsOf(k)[n],
                                                    ItemPath(PathOf(k), n - 1)).errors])
                     /\ \A n \in 1..Len(ItemsOf(k)) :
                           LET errs == NestedResult(i, ItemsOf(k)[n],
                                                    ItemPath(PathOf(k), n - 1)).errors
                           IN  \A m \in 1..Len(errs) :
                                  IsPrefix(ItemPath(PathOf(k), n - 1), errs[m].path)

\* C14 witness: the reference is a substring of both keys without being equal
\* to either, the first entry's profile was used and reported errors, and the
\* second entry's profile would have reported other errors
C14_Witness ==
    /\ ReturnedOnObject
    /\ Len(referenced_profiles) = 2
    /\ referenced_profiles[1].ns = NsB
    /\ \E k \in 1..Len(Self.fields) :
          /\ Present(k) /\ ~IsArrayField(k)
          /\ RefOf(k) = RefAny
          /\ KeyMatches(1, RefOf(k)) /\ KeyMatches(2, RefOf(k))
          /\ result.errors # <<>>
          /\ result.errors = NestedResult(1, ValueOf(k), PathOf(k)).errors
          /\ result.errors # NestedResult(2, ValueOf(k), PathOf(k)).errors

\* C15 as stated: for every value, type identifier and path the primitive type
\* check returns no error or one error.
C15_ZeroOrOneError ==
    pc = "_validate_opc_type" => Len(errors) <= 1

\* C15, amended: the primitive type check returns no error or one error for
\* every type identifier but TimeZoneDataType; for TimeZoneDataType it returns
\* one error for a value that is not an object and none, one or two for an
\* object, two being the offset's error followed by daylightSavingInOffset's.
C15_PrimitiveCheckArity ==
    pc = "_validate_opc_type" =>
        IF opc_type # "opc:TimeZoneDataType"
        THEN Len(errors) <= 1
        ELSE /\ Len(errors) <= 2
             /\ value.t # "dict" => Len(errors) = 1
             /\ Len(errors) = 2 => /\ errors[1].path = OffsetPathOf(path)
                                   /\ errors[2].path = DaylightPathOf(path)

\* C15 witness: an empty object checked as TimeZoneDataType has two errors
C15_Witness ==
    /\ pc = "_validate_opc_type"
    /\ opc_type = "opc:TimeZoneDataType"
    /\ value = PyDict(NoFields)
    /\ Len(errors) = 2

====
